---- MODULE Spec2Model ----
(***************************************************************************)
(* The 2048 application of src/pretty_2048.py (class Game2048App) as a     *)
(* state machine: one action per Tk event handler (a direction key, the    *)
(* restart key, one firing of the perform_animation_step timer).           *)
(*                                                                         *)
(* A tile (TileWidget) is a record [value, row, col] stored in the dict    *)
(* `tiles` under its tile_id; a board cell holds a tile_id, or None.       *)
(* Canvas drawing, fonts and the new-tile "pop" animation touch no field   *)
(* the handlers read and are left out.                                     *)
(***************************************************************************)
EXTENDS Integers, Sequences, FiniteSets, TLC

\* ------------------------------------------------------------------------
\* Program constants (src/pretty_2048.py:11-16)
BOARD_SIZE == 4
WIN_TILE == 2048
ANIMATION_STEPS == 10

\* Bounds of the exploration
MaxMoves == 1        \* accepted moves explored per session started by reset_game
MaxLateMoves == 2    \* accepted moves explored from a drawn late-game board
MaxTimers == 2       \* pending perform_animation_step callbacks
RandomDraws == 2     \* outcomes of one random.choice(empties) the exploration follows

\* ------------------------------------------------------------------------
\* Python values
None == 0                                   \* an empty board cell (ids are >= 1)
Idx == 0 .. (BOARD_SIZE - 1)
Cells == Idx \X Idx                         \* <<row, col>>
Directions == {"left", "right", "up", "down"}
EmptyDict == <<>>
EmptyBoard == [cell \in Cells |-> None]
NoAnimation == [active |-> FALSE, step |-> 0, movements |-> EmptyDict, merges |-> <<>>]

\* dict[k] = v
Put(f, k, v) == [x \in (DOMAIN f) \cup {k} |-> IF x = k THEN v ELSE f[x]]
\* del dict[k]
Del(f, k) == [x \in (DOMAIN f) \ {k} |-> f[x]]
\* Mutant of Max: the second argument wins.
MaxIsSecond(a, b) == b
\* max(a, b)
Max(a, b) == IF a > b THEN a ELSE b

VARIABLES
    board,            \* self.board: cell -> tile_id or None
    tiles,            \* self.tiles: tile_id -> [value, row, col]
    tile_id_counter,  \* self.tile_id_counter
    score,            \* self.score
    best_score,       \* self.best_score
    animating,        \* self.animating
    animation_state,  \* self.animation_state (NoAnimation is None)
    start_positions,  \* self.start_positions: tile_id -> <<row, col>>
    message_var,      \* self.message_var: "start", "win" or "over"
    timers,           \* perform_animation_step callbacks scheduled with root.after
    raised,           \* the last handler ended with an AssertionError
    owed,             \* an accepted move's add_random_tile(animate=True) has not run yet
    budget            \* accepted moves the exploration still follows

vars == <<board, tiles, tile_id_counter, score, best_score, animating,
          animation_state, start_positions, message_var, timers, raised, owed, budget>>

\* The 2048 application before it is constructed, and left alone
GameIdle ==
    /\ board = <<>> /\ tiles = <<>> /\ tile_id_counter = 0
    /\ score = 0 /\ best_score = 0 /\ animating = FALSE
    /\ animation_state = [active |-> FALSE, step |-> 0, movements |-> <<>>, merges |-> <<>>]
    /\ start_positions = <<>> /\ message_var = "start"
    /\ timers = 0 /\ raised = FALSE /\ owed = FALSE /\ budget = 0
GameFrozen == UNCHANGED vars

\* ------------------------------------------------------------------------
\* src/systems/save_data.py: one SaveData object and the file at its path
VARIABLES
    save_file,        \* the file at self.path: [exists, text], text a JSON text or not
    save_data,        \* self.data
    save_ops          \* mutating calls made so far

save_vars == <<save_file, save_data, save_ops>>

\* no SaveData exists and none is used
SaveIdle ==
    /\ save_file = [exists |-> FALSE, text |-> [j |-> "none"]]
    /\ save_data = <<>>
    /\ save_ops = 0
SaveFrozen == UNCHANGED save_vars

\* ------------------------------------------------------------------------
\* src/systems/stage_script.py and src/systems/spawner.py: one stage file, the
\* StageScript loaded from it and the Spawner built on that script
VARIABLES
    stage_json,       \* json.loads(path.read_text()): the dict of the stage file
    script,           \* the StageScript: [loaded, timeline, duration]
    spawner,          \* the Spawner: [built, events, elapsed], and the update() calls
                      \* made since construction or reset()
    dispatched        \* the events update() has dispatched since construction or reset

stage_vars == <<stage_json, script, spawner, dispatched>>

\* no stage file is read
StageIdle ==
    /\ stage_json = <<>>
    /\ script = [loaded |-> FALSE, timeline |-> <<>>, duration |-> 0]
    /\ spawner = [built |-> FALSE, events |-> <<>>, elapsed |-> 0, updates |-> 0]
    /\ dispatched = <<>>
StageFrozen == UNCHANGED stage_vars

\* ------------------------------------------------------------------------
\* src/core/scene_manager.py: one SceneManager and the scenes handed to it
VARIABLES
    scene_stack,      \* self.stack: scenes [kind, id, success], the top last
    scene_calls,      \* per scene object the enter() / exit() calls it has received
    scenes_made,      \* scene objects constructed by the game so far
    scene_ops         \* calls of push, pop, replace made so far

scene_vars == <<scene_stack, scene_calls, scenes_made, scene_ops>>

\* SceneManager.__init__: an empty stack; no scene has been called
SceneIdle ==
    /\ scene_stack = <<>>
    /\ scene_calls = <<>>
    /\ scenes_made = 0
    /\ scene_ops = 0
SceneFrozen == UNCHANGED scene_vars

\* ------------------------------------------------------------------------
\* src/actors/player.py and src/systems/stage_flow.py: one StageState and its Player
VARIABLES
    player,           \* the Player: health (in half points), ammo, weapon_id, the timers,
                      \* invulnerable, powerups, combo_hits, combo_decay
    stage_state       \* the StageState: failed, completed, stage_time, the stats, and the
                      \* calls it has made on the save data and the scene manager

play_vars == <<player, stage_state>>

\* no stage is being played
PlayIdle ==
    /\ player = <<>>
    /\ stage_state = <<>>
PlayFrozen == UNCHANGED play_vars

\* ------------------------------------------------------------------------
\* src/core/game.py (Game.start) and src/core/input.py: the main loop's
\* accumulator and the InputManager
VARIABLES
    input_state,      \* InputManager.state: the keys in pressed and in down
    accumulator,      \* Game.accumulator
    presses,          \* per key the press events received so far
    acted,            \* per key the updates in which was_pressed(key) was true
    frames            \* iterations of the main loop so far

frame_vars == <<input_state, accumulator, presses, acted, frames>>

\* the main loop has not started
FrameIdle ==
    /\ input_state = [pressed |-> {}, down |-> {}]
    /\ accumulator = 0
    /\ presses = <<>>
    /\ acted = <<>>
    /\ frames = 0
FrameFrozen == UNCHANGED frame_vars

\* the systems of the rail shooter that the 2048 application, the save file
\* and the stage script leave alone
ExtraIdle == SceneIdle /\ PlayIdle /\ FrameIdle
ExtraFrozen == SceneFrozen /\ PlayFrozen /\ FrameFrozen

\* ------------------------------------------------------------------------
\* add_random_tile
\* empties = [(r, c) for r in range(BOARD_SIZE) for c in range(BOARD_SIZE) if ... is None]
RowMajor == [k \in 1..(BOARD_SIZE * BOARD_SIZE) |->
                <<(k - 1) \div BOARD_SIZE, (k - 1) % BOARD_SIZE>>]
EmptiesList(b) == SelectSeq(RowMajor, LAMBDA cell : b[cell] = None)

\* Mutant of PlaceTile: the new tile gets twice the value drawn.
PlaceTileDoubled(b, t, ctr, cell, v) ==
    [board |-> [b EXCEPT ![cell] = ctr + 1],
     tiles |-> Put(t, ctr + 1, [value |-> 2 * v, row |-> cell[1], col |-> cell[2]]),
     tile_id_counter |-> ctr + 1]

\* the body of add_random_tile once random.choice gave `cell` and the value is v
PlaceTile(b, t, ctr, cell, v) ==
    [board |-> [b EXCEPT ![cell] = ctr + 1],
     tiles |-> Put(t, ctr + 1, [value |-> v, row |-> cell[1], col |-> cell[2]]),
     tile_id_counter |-> ctr + 1]

\* Mutant of AddRandomTileAmong: the cell is chosen among all the cells, empty or not.
AddRandomTileAnyCell(b, t, ctr, indices) ==
    {PlaceTile(b, t, ctr, RowMajor[i], v) : i \in indices, v \in {2, 4}}

\* add_random_tile with random.choice giving empties[i] for an i in `indices`
\* and random.random() giving either value
AddRandomTileAmong(b, t, ctr, indices) ==
    LET empties == EmptiesList(b)
    IN  IF empties = <<>>
        THEN {[board |-> b, tiles |-> t, tile_id_counter |-> ctr]}
        ELSE {PlaceTile(b, t, ctr, empties[i], v) : i \in indices, v \in {2, 4}}

\* every outcome add_random_tile can have
AllIndices(n) == 1..n
AddRandomTile(b, t, ctr) == AddRandomTileAmong(b, t, ctr, AllIndices(Len(EmptiesList(b))))

\* the outcomes the exploration follows: RandomDraws indices spread over the list
DrawIndices(n) == {(u * n) \div RandomDraws + 1 : u \in 0..(RandomDraws - 1)}
DrawRandomTile(b, t, ctr) == AddRandomTileAmong(b, t, ctr, DrawIndices(Len(EmptiesList(b))))

\* ------------------------------------------------------------------------
\* compute_move
\* Mutant of LineIterator: "right" reads its rows from the left, as "left" does.
LineIteratorRightAsLeft(direction) ==
    CASE direction \in {"left", "right"}
                             -> [i \in 1..BOARD_SIZE |-> [j \in 1..BOARD_SIZE |-> <<i - 1, j - 1>>]]
      [] direction = "up"    -> [i \in 1..BOARD_SIZE |-> [j \in 1..BOARD_SIZE |-> <<j - 1, i - 1>>]]
      [] direction = "down"  -> [i \in 1..BOARD_SIZE |-> [j \in 1..BOARD_SIZE |-> <<BOARD_SIZE - j, i - 1>>]]

LineIterator(direction) ==
    CASE direction = "left"  -> [i \in 1..BOARD_SIZE |-> [j \in 1..BOARD_SIZE |-> <<i - 1, j - 1>>]]
      [] direction = "right" -> [i \in 1..BOARD_SIZE |-> [j \in 1..BOARD_SIZE |-> <<i - 1, BOARD_SIZE - j>>]]
      [] direction = "up"    -> [i \in 1..BOARD_SIZE |-> [j \in 1..BOARD_SIZE |-> <<j - 1, i - 1>>]]
      [] direction = "down"  -> [i \in 1..BOARD_SIZE |-> [j \in 1..BOARD_SIZE |-> <<BOARD_SIZE - j, i - 1>>]]

\* tiles_line = [self.board[r][c] for r, c in coords if self.board[r][c] is not None]
TilesLine(b, coords) ==
    SelectSeq([j \in 1..BOARD_SIZE |-> b[coords[j]]], LAMBDA id : id # None)

\* Mutant of MergesWithNext: the bound is off by one, the last pair of a line never merges.
MergesWithNextOffByOne(tiles_line, idx, t) ==
    /\ idx + 1 < Len(tiles_line)
    /\ t[tiles_line[idx + 1]].value = t[tiles_line[idx]].value

\* if idx + 1 < len(tiles_line) and tiles_line[idx + 1].value == current_tile.value
\* (idx is 1-based here)
MergesWithNext(tiles_line, idx, t) ==
    /\ idx + 1 <= Len(tiles_line)
    /\ t[tiles_line[idx + 1]].value = t[tiles_line[idx]].value

\* Mutant of AddGain: the value is added before it is doubled.
AddGainBeforeDoubling(score_gain, value) == score_gain + value \div 2
\* score_gain += current_tile.value (after current_tile.value *= 2)
AddGain(score_gain, value) == score_gain + value

\* Mutant of Doubled: 2 is added instead.
DoubledByAdding(value) == value + 2
\* current_tile.value *= 2
Doubled(value) == value * 2

\* Mutant of AfterMerge: the absorbed tile is looked at again.
AfterMergeByOne(idx) == idx + 1
\* idx += 2 after a merge
AfterMerge(idx) == idx + 2

\* The while loop over one line. idx is 1-based here (0-based in the code);
\* target_index is 0-based as in the code. acc carries tiles (values doubled in
\* place), movements, merges, score_gain, new_line.
RECURSIVE LineLoop(_, _, _, _, _)
LineLoop(coords, tiles_line, idx, target_index, acc) ==
    IF idx > Len(tiles_line)
    THEN acc
    ELSE LET current_tile == tiles_line[idx]
             current_target == coords[target_index + 1]
         IN  IF MergesWithNext(tiles_line, idx, acc.tiles)
             THEN LET next_tile == tiles_line[idx + 1]
                      doubled == Doubled(acc.tiles[current_tile].value)
                  IN  LineLoop(coords, tiles_line, AfterMerge(idx), target_index + 1,
                         [tiles |-> [acc.tiles EXCEPT ![current_tile].value = doubled],
                          merges |-> Append(acc.merges, <<current_tile, next_tile>>),
                          score_gain |-> AddGain(acc.score_gain, doubled),
                          movements |-> Put(Put(acc.movements, current_tile, current_target),
                                            next_tile, current_target),
                          new_line |-> [acc.new_line EXCEPT ![target_index + 1] = current_tile]])
             ELSE LineLoop(coords, tiles_line, idx + 1, target_index + 1,
                         [acc EXCEPT !.movements = Put(acc.movements, current_tile, current_target),
                                     !.new_line[target_index + 1] = current_tile])

\* One iteration of "for coords in lines": an empty line is skipped, otherwise the
\* line is rebuilt and written back to the board.
ProcessLine(acc, coords) ==
    LET tiles_line == TilesLine(acc.board, coords)
    IN  IF tiles_line = <<>>
        THEN acc
        ELSE LET r == LineLoop(coords, tiles_line, 1, 0,
                        [tiles |-> acc.tiles, merges |-> acc.merges,
                         score_gain |-> acc.score_gain, movements |-> acc.movements,
                         new_line |-> [j \in 1..BOARD_SIZE |-> None]])
             IN  [board |-> [cell \in Cells |->
                                IF \E j \in 1..BOARD_SIZE : coords[j] = cell
                                THEN r.new_line[CHOOSE j \in 1..BOARD_SIZE : coords[j] = cell]
                                ELSE acc.board[cell]],
                  tiles |-> r.tiles, merges |-> r.merges,
                  score_gain |-> r.score_gain, movements |-> r.movements]

RECURSIVE ProcessLines(_, _, _)
ProcessLines(acc, lines, i) ==
    IF i > Len(lines) THEN acc
    ELSE ProcessLines(ProcessLine(acc, lines[i]), lines, i + 1)

\* any(tile.value >= WIN_TILE for tile in self.tiles.values())
AnyWinTile(t) == \E id \in DOMAIN t : t[id].value >= WIN_TILE

\* Mutant of MovedFlag: every move counts as moved.
MovedFlagAlways(movements, merges, t, sp) == TRUE

\* Mutant of MovedFlag: "if merges: moved = True" alone, the start/target comparison lost.
MovedFlagMergesOnly(movements, merges, t, sp) == merges # <<>>

\* Mutant of MovedFlag: only the rows of start and target are compared.
MovedFlagRowOnly(movements, merges, t, sp) ==
    \/ \E id \in DOMAIN movements :
          /\ id \in DOMAIN t
          /\ (IF id \in DOMAIN sp THEN sp[id] ELSE <<t[id].row, t[id].col>>)[1] # movements[id][1]
    \/ merges # <<>>

\* Mutant of MovedFlag: only the columns of start and target are compared.
MovedFlagColOnly(movements, merges, t, sp) ==
    \/ \E id \in DOMAIN movements :
          /\ id \in DOMAIN t
          /\ (IF id \in DOMAIN sp THEN sp[id] ELSE <<t[id].row, t[id].col>>)[2] # movements[id][2]
    \/ merges # <<>>

\* The moved flag: some moved tile's start differs from its target, or a merge happened.
\* t holds the tiles before their row and col are set to the targets.
MovedFlag(movements, merges, t, sp) ==
    \/ \E id \in DOMAIN movements :
          /\ id \in DOMAIN t
          /\ (IF id \in DOMAIN sp THEN sp[id] ELSE <<t[id].row, t[id].col>>) # movements[id]
    \/ merges # <<>>

\* compute_move(direction) run on the fields b, t, sp, sc, best, msg: the returned
\* tuple (moved, movements, merges, score_gain) and the fields as it leaves them.
ComputeMove(b, t, sp, sc, best, msg, direction) ==
    LET r == ProcessLines([board |-> b, tiles |-> t, merges |-> <<>>,
                           score_gain |-> 0, movements |-> EmptyDict],
                          LineIterator(direction), 1)
        moved == MovedFlag(r.movements, r.merges, r.tiles, sp)
        new_tiles == [id \in DOMAIN r.tiles |->
                        IF id \in DOMAIN r.movements
                        THEN [r.tiles[id] EXCEPT !.row = r.movements[id][1],
                                                 !.col = r.movements[id][2]]
                        ELSE r.tiles[id]]
        new_score == IF moved THEN sc + r.score_gain ELSE sc
    IN  [moved |-> moved, movements |-> r.movements, merges |-> r.merges,
         score_gain |-> r.score_gain,
         board |-> r.board, tiles |-> new_tiles,
         score |-> new_score,
         best_score |-> IF moved THEN Max(best, new_score) ELSE best,
         message_var |-> IF moved /\ AnyWinTile(new_tiles) THEN "win" ELSE msg]

\* Mutant of MovesAvailable: only the right-hand neighbour is compared.
MovesAvailableRightOnly(b, t) ==
    \E row \in Idx, col \in Idx :
        \/ b[<<row, col>>] = None
        \/ /\ col + 1 < BOARD_SIZE
           /\ \/ b[<<row, col + 1>>] = None
              \/ t[b[<<row, col + 1>>]].value = t[b[<<row, col>>]].value

\* moves_available
MovesAvailable(b, t) ==
    \E row \in Idx, col \in Idx :
        \/ b[<<row, col>>] = None
        \/ \E d \in {<<0, 1>>, <<1, 0>>} :
              /\ row + d[1] < BOARD_SIZE
              /\ col + d[2] < BOARD_SIZE
              /\ \/ b[<<row + d[1], col + d[2]>>] = None
                 \/ t[b[<<row + d[1], col + d[2]>>]].value = t[b[<<row, col>>]].value

\* ------------------------------------------------------------------------
\* Mutant of ResetOutcomes: add_random_tile is called once only.
ResetOutcomesOneTile == DrawRandomTile(EmptyBoard, EmptyDict, 0)

\* reset_game: the fields after it, for every outcome of its two add_random_tile calls
ResetOutcomes ==
    UNION {DrawRandomTile(o.board, o.tiles, o.tile_id_counter) :
              o \in DrawRandomTile(EmptyBoard, EmptyDict, 0)}

\* Game2048App.__init__: the fields are zeroed and reset_game runs
Init ==
    /\ \E o \in ResetOutcomes :
          /\ board = o.board
          /\ tiles = o.tiles
          /\ tile_id_counter = o.tile_id_counter
    /\ score = 0
    /\ best_score = 0
    /\ animating = FALSE
    /\ animation_state = NoAnimation
    /\ start_positions = EmptyDict
    /\ message_var = "start"
    /\ timers = 0
    /\ raised = FALSE
    /\ owed = FALSE
    /\ budget = MaxMoves
    /\ SaveIdle
    /\ StageIdle /\ ExtraIdle

\* ------------------------------------------------------------------------
\* Boards of sessions in progress, for the specification SpecBoards. A drawn
\* value grid (0 is an empty cell) becomes a session at rest: the tiles carry
\* the ids 1..k in row-major order (the code uses an id only as a dict key),
\* and the score is the one of a session in which every tile appeared as a 2.
\* Each grid holds at least two tiles, one of them a 2 or a 4, as every board
\* does once add_random_tile has run.
GridCount(g) == Cardinality({cell \in Cells : g[cell] # 0})
RowMajorIndex(cell) == cell[1] * BOARD_SIZE + cell[2] + 1
IdOf(g, cell) == Cardinality({k \in 1..RowMajorIndex(cell) : g[RowMajor[k]] # 0})
BoardOf(g) == [cell \in Cells |-> IF g[cell] = 0 THEN None ELSE IdOf(g, cell)]
TilesOf(g) ==
    [id \in 1..GridCount(g) |->
        LET cell == CHOOSE c \in Cells : g[c] # 0 /\ IdOf(g, c) = id
        IN  [value |-> g[cell], row |-> cell[1], col |-> cell[2]]]

RECURSIVE ScoreOf(_)
ScoreOf(v) == IF v <= 2 THEN 0 ELSE v + 2 * ScoreOf(v \div 2)
RECURSIVE SumScore(_, _)
SumScore(g, k) == IF k = 0 THEN 0 ELSE ScoreOf(g[RowMajor[k]]) + SumScore(g, k - 1)
GridScore(g) == SumScore(g, BOARD_SIZE * BOARD_SIZE)

AtRest(g) == GridCount(g) >= 2 /\ \E cell \in Cells : g[cell] \in {2, 4}

\* every tile on one edge row or edge column
EdgeLines == {LineIterator("left")[1], LineIterator("left")[BOARD_SIZE],
              LineIterator("up")[1], LineIterator("up")[BOARD_SIZE]}
LineGrids ==
    {g \in {[cell \in Cells |->
                IF \E j \in 1..BOARD_SIZE : line[j] = cell
                THEN vals[CHOOSE j \in 1..BOARD_SIZE : line[j] = cell]
                ELSE 0] : line \in EdgeLines, vals \in [1..BOARD_SIZE -> {0, 2, 4, 8}]} :
        AtRest(g)}

\* the two top rows full of 2s and 4s
TwoRowGrids ==
    {[cell \in Cells |-> IF cell[1] <= 1 THEN vals[RowMajorIndex(cell)] ELSE 0] :
        vals \in [1..(2 * BOARD_SIZE) -> {2, 4}]}

\* a late board: two 1024 tiles side by side, the last two cells drawn
LateRows == << <<1024, 1024, 8, 16>>,
               <<32, 64, 128, 256>>,
               <<512, 16, 32, 64>>,
               <<128, 256, 0, 0>> >>
LateGrids ==
    {g \in {[cell \in Cells |->
                IF cell = <<BOARD_SIZE - 1, BOARD_SIZE - 2>> THEN a
                ELSE IF cell = <<BOARD_SIZE - 1, BOARD_SIZE - 1>> THEN b
                ELSE LateRows[cell[1] + 1][cell[2] + 1]] : a \in {0, 2, 4}, b \in {0, 2, 4}} :
        \E cell \in Cells : g[cell] \in {2, 4}}

InitBoards ==
    /\ \/ \E g \in LineGrids \cup TwoRowGrids :
             /\ board = BoardOf(g) /\ tiles = TilesOf(g)
             /\ tile_id_counter = GridCount(g)
             /\ score = GridScore(g) /\ best_score = GridScore(g)
             /\ budget = MaxMoves
       \/ \E g \in LateGrids :
             /\ board = BoardOf(g) /\ tiles = TilesOf(g)
             /\ tile_id_counter = GridCount(g)
             /\ score = GridScore(g) /\ best_score = GridScore(g)
             /\ budget = MaxLateMoves
    /\ animating = FALSE
    /\ animation_state = NoAnimation
    /\ start_positions = EmptyDict
    /\ message_var = "start"
    /\ timers = 0
    /\ raised = FALSE
    /\ owed = FALSE
    /\ SaveIdle
    /\ StageIdle /\ ExtraIdle

\* The "r" / "R" binding of main(): reset_game. A callback scheduled by an
\* animation in progress stays scheduled.
ResetGame ==
    /\ animating => timers < MaxTimers
    /\ \E o \in ResetOutcomes :
          /\ board' = o.board
          /\ tiles' = o.tiles
          /\ tile_id_counter' = o.tile_id_counter
    /\ animating' = FALSE
    /\ animation_state' = NoAnimation
    /\ start_positions' = EmptyDict
    /\ score' = 0
    /\ best_score' = Max(best_score, 0)
    /\ message_var' = "start"
    /\ raised' = FALSE
    /\ budget' = MaxMoves
    /\ UNCHANGED <<timers, owed>>

\* queue_move: {tile_id: (tile.row, tile.col) for tile_id, tile in self.tiles.items()}
Positions(t) == [id \in DOMAIN t |-> <<t[id].row, t[id].col>>]

\* queue_move: what compute_move(direction) returns and leaves in the current state
MoveResult(direction) ==
    ComputeMove(board, tiles, Positions(tiles), score, best_score, message_var, direction)

\* on_key with a direction key while not animating: queue_move, compute_move and,
\* when the move moved, start_animation with its first perform_animation_step
\* (step 0 -> 1, the next step scheduled with root.after).
OnKey(direction) ==
    /\ ~animating
    /\ start_positions' = Positions(tiles)
    /\ LET m == MoveResult(direction)
       IN  /\ m.moved => budget > 0
           /\ board' = m.board
           /\ tiles' = m.tiles
           /\ score' = m.score
           /\ best_score' = m.best_score
           /\ message_var' = m.message_var
           /\ IF m.moved
              THEN /\ animating' = TRUE
                   /\ animation_state' = [active |-> TRUE, step |-> 1,
                                          movements |-> m.movements, merges |-> m.merges]
                   /\ timers' = timers + 1
                   /\ owed' = TRUE
                   /\ budget' = budget - 1
              ELSE UNCHANGED <<animating, animation_state, timers, owed, budget>>
    /\ raised' = FALSE
    /\ UNCHANGED tile_id_counter

\* on_key while animating returns at once
OnKeyIgnored ==
    /\ animating
    /\ raised' = FALSE
    /\ UNCHANGED <<board, tiles, tile_id_counter, score, best_score, animating,
                   animation_state, start_positions, message_var, timers, owed, budget>>

\* A scheduled perform_animation_step fires with animation_state None:
\* the assert at its first line fails.
StepAssertFails ==
    /\ timers > 0
    /\ ~animation_state.active
    /\ timers' = timers - 1
    /\ raised' = TRUE
    /\ UNCHANGED <<board, tiles, tile_id_counter, score, best_score, animating,
                   animation_state, start_positions, message_var, owed, budget>>

\* ... fires with step < ANIMATION_STEPS: the tiles are drawn moved, the step is
\* counted and the callback scheduled again.
StepAdvance ==
    /\ timers > 0
    /\ animation_state.active
    /\ animation_state.step < ANIMATION_STEPS
    /\ animation_state' = [animation_state EXCEPT !.step = @ + 1]
    /\ raised' = FALSE
    /\ UNCHANGED <<board, tiles, tile_id_counter, score, best_score, animating,
                   start_positions, message_var, timers, owed, budget>>

\* Mutant of RemoveMerged: the keeper of each pair is deleted instead.
RECURSIVE RemoveMergedKeeper(_, _, _)
RemoveMergedKeeper(t, merges, i) ==
    IF i > Len(merges) THEN t
    ELSE RemoveMergedKeeper(IF merges[i][1] \in DOMAIN t THEN Del(t, merges[i][1]) ELSE t,
                            merges, i + 1)

\* the tiles of self.tiles after the two loops that end the animation
RECURSIVE RemoveMerged(_, _, _)
RemoveMerged(t, merges, i) ==
    IF i > Len(merges) THEN t
    ELSE RemoveMerged(IF merges[i][2] \in DOMAIN t THEN Del(t, merges[i][2]) ELSE t,
                      merges, i + 1)

FinishTiles(t, movements, merges) ==
    RemoveMerged([id \in DOMAIN t |->
                     IF id \in DOMAIN movements
                     THEN [t[id] EXCEPT !.row = movements[id][1], !.col = movements[id][2]]
                     ELSE t[id]],
                 merges, 1)

\* Mutant of FinishAddTile: the call is forgotten.
FinishAddNoTile(b, t, ctr) == {[board |-> b, tiles |-> t, tile_id_counter |-> ctr]}

\* self.add_random_tile(animate=True) at the end of the animation
FinishAddTile(b, t, ctr) == DrawRandomTile(b, t, ctr)

FinishMessage(b, t) ==
    IF ~MovesAvailable(b, t) THEN "over"
    ELSE IF AnyWinTile(t) THEN "win" ELSE "start"

\* ... fires with step = ANIMATION_STEPS: the animation ends, the merged tiles are
\* removed, a tile is added and the message is set.
StepFinish ==
    /\ timers > 0
    /\ animation_state.active
    /\ animation_state.step >= ANIMATION_STEPS
    /\ timers' = timers - 1
    /\ animation_state' = NoAnimation
    /\ animating' = FALSE
    /\ best_score' = Max(best_score, score)
    /\ \E o \in FinishAddTile(board,
                              FinishTiles(tiles, animation_state.movements,
                                          animation_state.merges),
                              tile_id_counter) :
          /\ board' = o.board
          /\ tiles' = o.tiles
          /\ tile_id_counter' = o.tile_id_counter
          /\ message_var' = FinishMessage(o.board, o.tiles)
    /\ owed' = FALSE
    /\ raised' = FALSE
    /\ UNCHANGED <<score, start_positions, budget>>

\* the handlers of the 2048 application; they touch no other system
Next ==
    \/ (\E direction \in Directions : OnKey(direction)) /\ SaveFrozen /\ StageFrozen /\ ExtraFrozen
    \/ OnKeyIgnored /\ SaveFrozen /\ StageFrozen /\ ExtraFrozen
    \/ ResetGame /\ SaveFrozen /\ StageFrozen /\ ExtraFrozen
    \/ StepAssertFails /\ SaveFrozen /\ StageFrozen /\ ExtraFrozen
    \/ StepAdvance /\ SaveFrozen /\ StageFrozen /\ ExtraFrozen
    \/ StepFinish /\ SaveFrozen /\ StageFrozen /\ ExtraFrozen

Spec == Init /\ [][Next]_vars

\* the same application, started from the drawn boards
SpecBoards == InitBoards /\ [][Next]_vars

\* ------------------------------------------------------------------------
\* The value grid of a board, and the move of the specification: each line read
\* front to back is compressed, merged pairwise front to back, compressed again
\* and written back.
Grid(b, t) == [cell \in Cells |-> IF b[cell] = None THEN 0 ELSE t[b[cell]].value]

RECURSIVE Zeros(_)
Zeros(n) == IF n = 0 THEN <<>> ELSE Append(Zeros(n - 1), 0)
Compress(line) ==
    SelectSeq(line, LAMBDA v : v # 0)
        \o Zeros(Len(line) - Len(SelectSeq(line, LAMBDA v : v # 0)))

RECURSIVE MergePairs(_, _)
MergePairs(line, i) ==
    IF i >= Len(line) THEN line
    ELSE IF line[i] # 0 /\ line[i] = line[i + 1]
         THEN MergePairs([line EXCEPT ![i] = 2 * line[i], ![i + 1] = 0], i + 1)
         ELSE MergePairs(line, i + 1)

ReferenceLine(line) == Compress(MergePairs(Compress(line), 1))

\* the cell at place j (1 = front) of line i (0-based) for a direction
ReferenceCell(direction, i, j) ==
    IF direction = "left" THEN <<i, j - 1>>
    ELSE IF direction = "right" THEN <<i, BOARD_SIZE - j>>
    ELSE IF direction = "up" THEN <<j - 1, i>>
    ELSE <<BOARD_SIZE - j, i>>

\* the line (0-based) and the place (1 = front) of a cell for a direction
ReferenceLineOf(direction, cell) ==
    IF direction \in {"left", "right"} THEN cell[1] ELSE cell[2]
ReferencePlaceOf(direction, cell) ==
    CHOOSE k \in 1..BOARD_SIZE :
        ReferenceCell(direction, ReferenceLineOf(direction, cell), k) = cell
ReferenceLineValues(g, direction, i) ==
    [k \in 1..BOARD_SIZE |-> g[ReferenceCell(direction, i, k)]]

ReferenceMove(g, direction) ==
    [cell \in Cells |->
        ReferenceLine(ReferenceLineValues(g, direction, ReferenceLineOf(direction, cell)))
            [ReferencePlaceOf(direction, cell)]]

\* C1: for every board and direction, the value grid compute_move leaves equals
\* the reference move (compress, merge front to back, compress) of the grid before.
C1_MoveMatchesReference ==
    [][\A direction \in Directions :
          OnKey(direction) =>
              Grid(board', tiles') = ReferenceMove(Grid(board, tiles), direction)]_vars

\* C1 witness: a move has just been computed in which two pairs of one row merged
\* (a line such as [2,2,2,2] or [2,2,4,4] moved along the row).
C1_Witness ==
    /\ animating
    /\ animation_state.step = 1
    /\ \E i, j \in 1..Len(animation_state.merges) :
          /\ i # j
          /\ \E row \in Idx :
                \A id \in {animation_state.merges[i][1], animation_state.merges[i][2],
                            animation_state.merges[j][1], animation_state.merges[j][2]} :
                    /\ id \in DOMAIN start_positions
                    /\ start_positions[id][1] = row

\* C2: for every board and direction, the moved flag compute_move returns is true
\* exactly when the value grid after the move differs from the grid before it.
C2_MovedIffGridDiffers ==
    [][\A direction \in Directions :
          OnKey(direction) =>
              (MoveResult(direction).moved <=> Grid(board', tiles') # Grid(board, tiles))]_vars

\* C2 witness: a move has just been accepted in which tiles slid and nothing merged.
C2_Witness ==
    /\ animating
    /\ animation_state.step = 1
    /\ animation_state.merges = <<>>
    /\ \E id \in DOMAIN start_positions :
          start_positions[id] # <<tiles[id].row, tiles[id].col>>

\* C3: a direction input whose move has moved = false leaves the board, every
\* tile, the score, the best score, the tile-id counter and the animating flag
\* unchanged (no tile is inserted, no random draw is made).
C3_NoOpChangesNothing ==
    [][\A direction \in Directions :
          (OnKey(direction) /\ ~MoveResult(direction).moved) =>
              UNCHANGED <<board, tiles, score, best_score, tile_id_counter, animating>>]_vars

\* C3 witness: a direction key has been handled on the present board (its
\* snapshot of the positions covers every tile) and no animation started.
C3_Witness ==
    /\ ~animating
    /\ DOMAIN tiles # {}
    /\ start_positions = Positions(tiles)

\* C4: after a move with moved = true no further direction input is accepted
\* until add_random_tile has placed exactly one tile, unless reset_game runs
\* first; a move with moved = false adds no tile. As steps: an accepted move
\* sets animating and adds nothing; while animating stays set nothing is added;
\* animating is cleared only by reset_game or by the step that adds one tile to
\* a cell that was empty.
C4_OneTilePerAcceptedMove ==
    [][/\ \A direction \in Directions :
            OnKey(direction) =>
                /\ tile_id_counter' = tile_id_counter
                /\ DOMAIN tiles' = DOMAIN tiles
                /\ animating' = MoveResult(direction).moved
       /\ (animating /\ animating') =>
              (tile_id_counter' = tile_id_counter /\ DOMAIN tiles' \subseteq DOMAIN tiles)
       /\ (animating /\ ~animating') =>
              \/ ResetGame
              \/ /\ tile_id_counter' = tile_id_counter + 1
                 /\ tile_id_counter' \notin DOMAIN tiles
                 /\ \E cell \in Cells :
                       /\ board[cell] = None
                       /\ board'[cell] = tile_id_counter'
                       /\ \A other \in Cells \ {cell} : board'[other] = board[other]]_vars

\* C4 witness: the animation of an accepted move has ended and its tile, which
\* the move's snapshot of the positions does not hold, is on the board.
C4_Witness ==
    /\ ~animating
    /\ start_positions # EmptyDict
    /\ tile_id_counter \notin DOMAIN start_positions
    /\ \E cell \in Cells : board[cell] = tile_id_counter

\* C4 as stated: a direction input is processed only when every earlier move
\* with moved = true has had its add_random_tile call.
C4_Original == [][(\E direction \in Directions : OnKey(direction)) => ~owed]_vars

\* C5: no handler raises; the assertion at the start of perform_animation_step
\* holds whenever the callback runs.
C5_NoHandlerRaises == ~raised

\* The session is over: at rest, and no direction would change the board.
Over == ~animating /\ \A direction \in Directions : ~MoveResult(direction).moved

\* C6: at rest, moves_available() is true exactly when some direction would
\* yield moved = true.
C6_MovesAvailableIffSomeMove ==
    ~animating =>
        (MovesAvailable(board, tiles) <=> \E direction \in Directions : MoveResult(direction).moved)

\* C6 witness: moves_available has returned false on a full board (the message
\* it selects is shown).
C6_Witness == ~animating /\ message_var = "over" /\ EmptiesList(board) = <<>>

\* C7: once the session is over (at rest, no direction would change the board),
\* every step other than reset_game (a direction input in particular) leaves the
\* board, the tiles, the score and the tile-id counter unchanged and starts no
\* animation, so the session stays over and no tile is inserted.
C7_OverIsTerminal ==
    [][\/ (UNCHANGED <<board, tiles, score, tile_id_counter>> /\ ~animating')
       \/ ~Over
       \/ ResetGame]_vars

\* C7 witness: the session is over and a direction key has been handled since
\* the last tile was added.
C7_Witness == Over /\ message_var = "over" /\ start_positions = Positions(tiles)

\* C8: whenever a tile of value >= WIN_TILE is in the session, the win is the
\* message reported.
C8_WinStaysReported == AnyWinTile(tiles) => message_var = "win"

\* C9: add_random_tile, on a board with an empty cell, fills exactly one empty
\* cell with a new tile of value 2 or 4 under the next tile id and leaves every
\* other cell and tile as it was; on a full board it changes nothing.
C9_AddRandomTile ==
    LET outcomes == AddRandomTile(board, tiles, tile_id_counter)
    IN  IF EmptiesList(board) = <<>>
        THEN outcomes = {[board |-> board, tiles |-> tiles, tile_id_counter |-> tile_id_counter]}
        ELSE \A o \in outcomes :
               /\ o.tile_id_counter = tile_id_counter + 1
               /\ o.tile_id_counter \notin DOMAIN tiles
               /\ DOMAIN o.tiles = DOMAIN tiles \cup {o.tile_id_counter}
               /\ \A id \in DOMAIN tiles : o.tiles[id] = tiles[id]
               /\ o.tiles[o.tile_id_counter].value \in {2, 4}
               /\ \E cell \in Cells :
                     /\ board[cell] = None
                     /\ o.board[cell] = o.tile_id_counter
                     /\ o.tiles[o.tile_id_counter].row = cell[1]
                     /\ o.tiles[o.tile_id_counter].col = cell[2]
                     /\ \A other \in Cells \ {cell} : o.board[other] = board[other]

\* C9 witness: add_random_tile has just filled the last empty cell (the tile is
\* newer than the move's snapshot), so the board is full.
C9_Witness ==
    /\ ~animating
    /\ EmptiesList(board) = <<>>
    /\ start_positions # EmptyDict
    /\ tile_id_counter \notin DOMAIN start_positions
    /\ \E cell \in Cells : board[cell] = tile_id_counter

\* C10: reset_game, in any state, leaves exactly two tiles, each a 2 or a 4, on
\* two cells of an otherwise empty board, score = 0 and animating = false, and
\* leaves best_score as it was.
C10_ResetGame ==
    [][ResetGame =>
          /\ Cardinality(DOMAIN tiles') = 2
          /\ \A id \in DOMAIN tiles' :
                /\ tiles'[id].value \in {2, 4}
                /\ board'[<<tiles'[id].row, tiles'[id].col>>] = id
          /\ Cardinality({cell \in Cells : board'[cell] # None}) = 2
          /\ score' = 0
          /\ animating' = FALSE
          /\ best_score' = best_score]_vars

\* C10 witness: reset_game has run while a move that scored was being animated
\* (its callback is still scheduled); the best score is kept.
C10_Witness ==
    /\ ~animating
    /\ ~animation_state.active
    /\ timers > 0
    /\ score = 0
    /\ best_score > 0
    /\ Cardinality(DOMAIN tiles) = 2
    /\ start_positions = EmptyDict

\* C11: best_score is the largest value the score has had since the application
\* started: it is at least the score at the start, and every step leaves it at
\* the larger of its old value and the new score (so it is >= score in every
\* state and never decreases).
C11_BestScoreIsMaxScore ==
    /\ best_score >= score
    /\ [][/\ best_score' = Max(best_score, score')
          /\ best_score' >= best_score
          /\ best_score' >= score']_vars

\* C11 witness: a later session has scored, less than an earlier one did.
C11_Witness == score > 0 /\ best_score > score

\* The gain of the specification: the doubled values of the pairs that merge in
\* a compressed line, scanned front to back, summed over the lines.
RECURSIVE ReferenceLineGain(_, _)
ReferenceLineGain(line, i) ==
    IF i >= Len(line) THEN 0
    ELSE IF line[i] # 0 /\ line[i] = line[i + 1]
         THEN 2 * line[i] + ReferenceLineGain([line EXCEPT ![i] = 2 * line[i], ![i + 1] = 0], i + 1)
         ELSE ReferenceLineGain(line, i + 1)
RECURSIVE ReferenceGainUpTo(_, _, _)
ReferenceGainUpTo(g, direction, n) ==
    IF n = 0 THEN 0
    ELSE ReferenceLineGain(Compress(ReferenceLineValues(g, direction, n - 1)), 1)
            + ReferenceGainUpTo(g, direction, n - 1)
ReferenceGain(g, direction) == ReferenceGainUpTo(g, direction, BOARD_SIZE)

\* the values the survivors of the first n merges have in the tiles t
RECURSIVE MergedValues(_, _, _)
MergedValues(merges, t, n) ==
    IF n = 0 THEN 0 ELSE t[merges[n][1]].value + MergedValues(merges, t, n - 1)

\* C12: for every direction input, the score_gain compute_move returns is the sum
\* of the doubled values its merges created (equally, the gain of the reference
\* merge of the four lines), and the score grows by exactly score_gain when
\* moved is true and by nothing when it is false.
C12_ScoreGainIsMergeSum ==
    [][\A direction \in Directions :
          OnKey(direction) =>
              /\ MoveResult(direction).score_gain
                    = MergedValues(MoveResult(direction).merges, tiles',
                                   Len(MoveResult(direction).merges))
              /\ MoveResult(direction).score_gain
                    = ReferenceGain(Grid(board, tiles), direction)
              /\ score' = score + (IF MoveResult(direction).moved
                                   THEN MoveResult(direction).score_gain ELSE 0)]_vars

\* C12 witness: a move has just been accepted in which two merges created
\* different values.
C12_Witness ==
    /\ animating
    /\ animation_state.step = 1
    /\ \E i, j \in 1..Len(animation_state.merges) :
          tiles[animation_state.merges[i][1]].value
              # tiles[animation_state.merges[j][1]].value

\* the sum of the values of the tiles on the first n cells (row-major) of a board
RECURSIVE BoardSumUpTo(_, _, _)
BoardSumUpTo(b, t, n) ==
    IF n = 0 THEN 0
    ELSE (IF b[RowMajor[n]] = None THEN 0 ELSE t[b[RowMajor[n]]].value)
            + BoardSumUpTo(b, t, n - 1)
BoardSum(b, t) == BoardSumUpTo(b, t, BOARD_SIZE * BOARD_SIZE)

\* C13: within a session (reset_game starts a new board), the sum of the values
\* of the tiles on the board is unchanged by every direction input and by every
\* step that adds no tile; the step that ends a move's animation, where
\* add_random_tile places a tile, raises it by exactly 2 or 4.
C13_BoardSum ==
    [][\/ /\ animating => animating'
          /\ BoardSum(board', tiles') = BoardSum(board, tiles)
       \/ /\ animating /\ ~animating'
          /\ BoardSum(board', tiles') - BoardSum(board, tiles) \in {2, 4}
       \/ ResetGame]_vars

\* C13 witness: a move that merged has ended and add_random_tile placed a 4.
C13_Witness ==
    /\ ~animating
    /\ start_positions # EmptyDict
    /\ tile_id_counter \in DOMAIN tiles
    /\ tile_id_counter \notin DOMAIN start_positions
    /\ tiles[tile_id_counter].value = 4
    /\ \E id \in DOMAIN start_positions : id \notin DOMAIN tiles

\* C13 as stated: every step leaves the sum unchanged or raises it by 2 or 4.
C13_Original ==
    [][\/ BoardSum(board', tiles') = BoardSum(board, tiles)
       \/ BoardSum(board', tiles') - BoardSum(board, tiles) \in {2, 4}]_vars

\* reverse_rows and transpose, of a cell, of a value grid, and of a board with its tiles
ReverseCell(cell) == <<cell[1], BOARD_SIZE - 1 - cell[2]>>
TransposeCell(cell) == <<cell[2], cell[1]>>
ReverseRows(g) == [cell \in Cells |-> g[ReverseCell(cell)]]
Transpose(g) == [cell \in Cells |-> g[TransposeCell(cell)]]
ReverseRowsTiles(t) ==
    [id \in DOMAIN t |-> [value |-> t[id].value, row |-> t[id].row,
                          col |-> BOARD_SIZE - 1 - t[id].col]]
TransposeTiles(t) ==
    [id \in DOMAIN t |-> [value |-> t[id].value, row |-> t[id].col, col |-> t[id].row]]

\* compute_move(direction) on the board b with the tiles t: the value grid it
\* leaves and the score_gain it returns
MoveOn(b, t, direction) == ComputeMove(b, t, Positions(t), 0, 0, "start", direction)
MoveGrid(b, t, direction) ==
    Grid(MoveOn(b, t, direction).board, MoveOn(b, t, direction).tiles)
MoveGain(b, t, direction) == MoveOn(b, t, direction).score_gain

\* C14: on every board, right is reverse_rows . left . reverse_rows, down is
\* transpose . right . transpose and up is transpose . left . transpose, for the
\* value grid compute_move leaves and for the score_gain it returns.
C14_DirectionSymmetry ==
    /\ MoveGrid(board, tiles, "right")
          = ReverseRows(MoveGrid(ReverseRows(board), ReverseRowsTiles(tiles), "left"))
    /\ MoveGain(board, tiles, "right")
          = MoveGain(ReverseRows(board), ReverseRowsTiles(tiles), "left")
    /\ MoveGrid(board, tiles, "down")
          = Transpose(MoveGrid(Transpose(board), TransposeTiles(tiles), "right"))
    /\ MoveGain(board, tiles, "down")
          = MoveGain(Transpose(board), TransposeTiles(tiles), "right")
    /\ MoveGrid(board, tiles, "up")
          = Transpose(MoveGrid(Transpose(board), TransposeTiles(tiles), "left"))
    /\ MoveGain(board, tiles, "up")
          = MoveGain(Transpose(board), TransposeTiles(tiles), "left")

\* C14 witness: a board, left by a finished move, on which right and down both
\* merge and right gives another grid than left.
C14_Witness ==
    /\ ~animating
    /\ start_positions # EmptyDict
    /\ MoveGain(board, tiles, "right") > 0
    /\ MoveGain(board, tiles, "down") > 0
    /\ MoveGrid(board, tiles, "right") # MoveGrid(board, tiles, "left")

\* the tile ids of the merges list, pair after pair
RECURSIVE MergeIds(_, _)
MergeIds(merges, n) ==
    IF n = 0 THEN <<>> ELSE MergeIds(merges, n - 1) \o <<merges[n][1], merges[n][2]>>

\* the values on row `row` of a value grid, left to right
RowValues(g, row) == [k \in 1..BOARD_SIZE |-> g[<<row, k - 1>>]]

\* C15: within one move no tile id occurs twice in the merges list, the two
\* tiles of a pair had the same value v before the move and the survivor has
\* exactly 2v after it (a doubled tile is not merged again); a row [2,2,2,2]
\* moved left becomes [4,4,0,0] and a row [4,4,8,0] becomes [8,8,0,0].
C15_OneMergePerTile ==
    [][\A direction \in Directions :
          OnKey(direction) =>
              /\ \A i, j \in 1..(2 * Len(MoveResult(direction).merges)) :
                    i # j =>
                        MergeIds(MoveResult(direction).merges,
                                 Len(MoveResult(direction).merges))[i]
                          # MergeIds(MoveResult(direction).merges,
                                     Len(MoveResult(direction).merges))[j]
              /\ \A i \in 1..Len(MoveResult(direction).merges) :
                    /\ tiles[MoveResult(direction).merges[i][2]].value
                          = tiles[MoveResult(direction).merges[i][1]].value
                    /\ tiles'[MoveResult(direction).merges[i][1]].value
                          = 2 * tiles[MoveResult(direction).merges[i][1]].value
              /\ \A row \in Idx :
                    direction = "left" =>
                        /\ RowValues(Grid(board, tiles), row) = <<2, 2, 2, 2>>
                              => RowValues(Grid(board', tiles'), row) = <<4, 4, 0, 0>>
                        /\ RowValues(Grid(board, tiles), row) = <<4, 4, 8, 0>>
                              => RowValues(Grid(board', tiles'), row) = <<8, 8, 0, 0>>]_vars

\* C15 witness: a move has just merged two tiles into an 8 that now lies next to
\* another 8 of its row, which took part in no merge.
C15_Witness ==
    /\ animating
    /\ animation_state.step = 1
    /\ \E i \in 1..Len(animation_state.merges) :
          \E id \in DOMAIN tiles :
              /\ \A k \in 1..Len(animation_state.merges) :
                    id # animation_state.merges[k][1] /\ id # animation_state.merges[k][2]
              /\ tiles[animation_state.merges[i][1]].value = 8
              /\ tiles[id].value = 8
              /\ tiles[id].row = tiles[animation_state.merges[i][1]].row
              /\ tiles[id].col = tiles[animation_state.merges[i][1]].col + 1

RECURSIVE IsPowerOfTwo(_)
IsPowerOfTwo(v) == v >= 2 /\ (v = 2 \/ (v % 2 = 0 /\ IsPowerOfTwo(v \div 2)))

\* C16: in every reachable state every board cell that is not empty holds the id
\* of a tile of the tile set whose value is a power of two and at least 2.
C16_ValuesArePowersOfTwo ==
    \A cell \in Cells :
        board[cell] # None =>
            /\ board[cell] \in DOMAIN tiles
            /\ IsPowerOfTwo(tiles[board[cell]].value)

\* C16 witness: a finished move has left a merged tile of value 16 or more on the
\* board, and a new tile with it.
C16_Witness ==
    /\ ~animating
    /\ start_positions # EmptyDict
    /\ tile_id_counter \notin DOMAIN start_positions
    /\ \E id \in DOMAIN start_positions : id \notin DOMAIN tiles
    /\ \E cell \in Cells :
          /\ board[cell] # None
          /\ tiles[board[cell]].value >= 16
          /\ start_positions[board[cell]] # cell

\* cell c1 lies before cell c2 on a line read front to back for a direction
FrontOf(direction, c1, c2) ==
    CASE direction = "left"  -> c1[1] = c2[1] /\ c1[2] < c2[2]
      [] direction = "right" -> c1[1] = c2[1] /\ c1[2] > c2[2]
      [] direction = "up"    -> c1[2] = c2[2] /\ c1[1] < c2[1]
      [] direction = "down"  -> c1[2] = c2[2] /\ c1[1] > c2[1]

\* C17: in every merge the pair recorded is (survivor, removed), the survivor
\* being the tile that lay nearer the target edge; both get the same destination
\* cell, where the board then holds the survivor with the doubled value; when the
\* animation ends the removed id leaves the tile set and the survivor stays in
\* it under its id with that value.
C17_SurvivorIsFirst ==
    [][/\ \A direction \in Directions :
            OnKey(direction) =>
                \A i \in 1..Len(MoveResult(direction).merges) :
                    /\ FrontOf(direction,
                               start_positions'[MoveResult(direction).merges[i][1]],
                               start_positions'[MoveResult(direction).merges[i][2]])
                    /\ MoveResult(direction).movements[MoveResult(direction).merges[i][1]]
                          = MoveResult(direction).movements[MoveResult(direction).merges[i][2]]
                    /\ board'[MoveResult(direction).movements[MoveResult(direction).merges[i][1]]]
                          = MoveResult(direction).merges[i][1]
                    /\ tiles'[MoveResult(direction).merges[i][1]].value
                          = 2 * tiles[MoveResult(direction).merges[i][2]].value
                    /\ \A cell \in Cells : board'[cell] # MoveResult(direction).merges[i][2]
       /\ (animating /\ ~animating' /\ timers' = timers - 1) =>
              \A i \in 1..Len(animation_state.merges) :
                  /\ animation_state.merges[i][2] \notin DOMAIN tiles'
                  /\ animation_state.merges[i][1] \in DOMAIN tiles'
                  /\ tiles'[animation_state.merges[i][1]].value
                        = tiles[animation_state.merges[i][1]].value
                  /\ board'[animation_state.movements[animation_state.merges[i][1]]]
                        = animation_state.merges[i][1]]_vars

\* C17 witness: the animation of a move with two merges has ended: two ids of
\* the move's snapshot are gone and a tile that moved holds a merged value.
C17_Witness ==
    /\ ~animating
    /\ \E r1, r2 \in DOMAIN start_positions :
          /\ r1 # r2
          /\ r1 \notin DOMAIN tiles
          /\ r2 \notin DOMAIN tiles
    /\ \E k \in DOMAIN start_positions :
          /\ k \in DOMAIN tiles
          /\ tiles[k].value >= 4
          /\ start_positions[k] # <<tiles[k].row, tiles[k].col>>
          /\ board[<<tiles[k].row, tiles[k].col>>] = k

\* ========================================================================
\* src/systems/save_data.py
\* ------------------------------------------------------------------------
MaxSaveOps == 3      \* mutating calls explored on one SaveData

\* dict.get(k, default)
Get(f, k, default) == IF k \in DOMAIN f THEN f[k] ELSE default

\* DEFAULT_SAVE (volumes in tenths)
DEFAULT_SAVE ==
    [coins |-> 0,
     weapons |-> [pistol |-> TRUE, smg |-> FALSE, shotgun |-> FALSE, carbine |-> FALSE],
     upgrades |-> EmptyDict,
     completed_stages |-> EmptyDict,
     settings |-> [volume |-> 7, music_volume |-> 5, difficulty |-> "Normal"],
     achievements |-> EmptyDict]

\* JSON texts. A number is written in digits, a bool as true / false, a string in
\* quotes, a dict as an object whose members are its key : value pairs.
JsonNumber(n) == [j |-> "number", digits |-> n]
\* Mutant of JsonBool: every bool is written as true.
JsonBoolAlwaysTrue(v) == [j |-> "true"]
JsonBool(v) == IF v THEN [j |-> "true"] ELSE [j |-> "false"]
JsonString(str) == [j |-> "string", chars |-> str]
JsonStageResult(r) ==
    [j |-> "object", members |-> {<<"stars", JsonNumber(r.stars)>>,
                                  <<"score", JsonNumber(r.score)>>}]
JsonSetting(k, v) == IF k = "difficulty" THEN JsonString(v) ELSE JsonNumber(v)
\* the text of the value stored under a top-level key
JsonOf(k, v) ==
    CASE k = "coins" -> JsonNumber(v)
      [] k \in {"weapons", "achievements"} ->
            [j |-> "object", members |-> {<<id, JsonBool(v[id])>> : id \in DOMAIN v}]
      [] k = "upgrades" ->
            [j |-> "object", members |-> {<<id, JsonNumber(v[id])>> : id \in DOMAIN v}]
      [] k = "completed_stages" ->
            [j |-> "object", members |-> {<<id, JsonStageResult(v[id])>> : id \in DOMAIN v}]
      [] k = "settings" ->
            [j |-> "object", members |-> {<<id, JsonSetting(id, v[id])>> : id \in DOMAIN v}]
\* json.dumps(self.data, indent=2)
JsonDumps(d) == [j |-> "object", members |-> {<<k, JsonOf(k, d[k])>> : k \in DOMAIN d}]

\* json.loads of a text json.dumps wrote, value by value
Member(o, k) == (CHOOSE m \in o.members : m[1] = k)[2]
Keys(o) == {m[1] : m \in o.members}
PyOfScalar(t) ==
    CASE t.j = "number" -> t.digits
      [] t.j = "true" -> TRUE
      [] t.j = "false" -> FALSE
      [] t.j = "string" -> t.chars
PyOfStageResult(o) ==
    [stars |-> PyOfScalar(Member(o, "stars")), score |-> PyOfScalar(Member(o, "score"))]
PyOf(k, t) ==
    CASE k = "coins" -> PyOfScalar(t)
      [] k = "completed_stages" -> [id \in Keys(t) |-> PyOfStageResult(Member(t, id))]
      [] OTHER -> [id \in Keys(t) |-> PyOfScalar(Member(t, id))]
JsonLoads(t) == [k \in Keys(t) |-> PyOf(k, Member(t, k))]

\* files: none at the path, one that is no JSON text, or a JSON text
AbsentFile == [exists |-> FALSE, text |-> [j |-> "none"]]
GarbageFile == [exists |-> TRUE, text |-> [j |-> "garbage"]]
FileOf(t) == [exists |-> TRUE, text |-> t]

\* write: self.path.write_text(json.dumps(self.data, indent=2))
Write(d) == FileOf(JsonDumps(d))

\* __post_init__: self.data for the file found at the path
PostInitData(file) ==
    IF file.exists
    THEN IF file.text.j = "object" THEN JsonLoads(file.text) ELSE DEFAULT_SAVE
    ELSE DEFAULT_SAVE
\* __post_init__: the file it leaves at the path
PostInitFile(file) == IF file.exists THEN file ELSE Write(DEFAULT_SAVE)

\* the files a SaveData may find: none, garbage, an empty object, a save of an
\* earlier run
FoundFiles ==
    {AbsentFile, GarbageFile, FileOf(JsonDumps(EmptyDict)),
     FileOf(JsonDumps([coins |-> 120,
                       weapons |-> [pistol |-> TRUE, smg |-> FALSE],
                       achievements |-> [first_blood |-> TRUE]]))}

\* SaveData(path)
InitSave ==
    /\ \E file \in FoundFiles :
          /\ save_data = PostInitData(file)
          /\ save_file = PostInitFile(file)
    /\ save_ops = 0
    /\ GameIdle
    /\ StageIdle /\ ExtraIdle

\* what every mutating call does after it has changed self.data to d
Mutated(d) ==
    /\ save_ops < MaxSaveOps
    /\ save_ops' = save_ops + 1
    /\ save_data' = d
    /\ save_file' = Write(d)
    /\ GameFrozen
    /\ StageFrozen /\ ExtraFrozen

add_coins(amount) ==
    Mutated(Put(save_data, "coins", Get(save_data, "coins", 0) + amount))

\* self.data.setdefault(key, {})[id] = v
SetIn(d, key, id, v) == Put(d, key, Put(Get(d, key, EmptyDict), id, v))

unlock_weapon(weapon_id) == Mutated(SetIn(save_data, "weapons", weapon_id, TRUE))

set_upgrade_level(upgrade_id, level) ==
    Mutated(SetIn(save_data, "upgrades", upgrade_id, level))

set_stage_result(stage_id, stars, stage_score) ==
    Mutated(SetIn(save_data, "completed_stages", stage_id,
                  [stars |-> stars, score |-> stage_score]))

achievement_unlocked(d, achievement_id) ==
    Get(Get(d, "achievements", EmptyDict), achievement_id, FALSE)

\* unlock_achievement: nothing is changed or written when it is unlocked already
unlock_achievement(achievement_id) ==
    IF achievement_unlocked(save_data, achievement_id)
    THEN /\ save_ops < MaxSaveOps
         /\ save_ops' = save_ops + 1
         /\ UNCHANGED <<save_data, save_file>>
         /\ GameFrozen
         /\ StageFrozen /\ ExtraFrozen
    ELSE Mutated(SetIn(save_data, "achievements", achievement_id, TRUE))

\* update_settings(**kwargs) with the one keyword k = v
update_settings(k, v) == Mutated(SetIn(save_data, "settings", k, v))

\* reset (named reset_save here: reset_game is the 2048 one)
reset_save == Mutated(DEFAULT_SAVE)

NextSave ==
    \/ \E amount \in {50, -20} : add_coins(amount)
    \/ \E weapon_id \in {"smg", "railgun"} : unlock_weapon(weapon_id)
    \/ \E level \in {1, 2} : set_upgrade_level("armor", level)
    \/ \E stars \in {1, 3} : set_stage_result("stage_city_01", stars, 1200)
    \/ \E achievement_id \in {"first_blood", "sharpshooter"} :
          unlock_achievement(achievement_id)
    \/ \E kv \in {<<"volume", 3>>, <<"difficulty", "Hard">>} : update_settings(kv[1], kv[2])
    \/ reset_save

SpecSave == InitSave /\ [][NextSave]_save_vars

\* C18: after any sequence of the mutating calls, a SaveData constructed on the
\* same path holds data equal to the data of the object in memory.
C18_SaveRoundTrip == PostInitData(save_file) = save_data

\* C18 witness: the three calls of the round-trip test have been made (coins,
\* the smg, a stage result) on a SaveData that started without coins.
C18_Witness ==
    /\ save_ops = 3
    /\ "coins" \in DOMAIN save_data
    /\ save_data.coins = 50
    /\ save_data.weapons["smg"]
    /\ "stage_city_01" \in DOMAIN save_data.completed_stages
    /\ save_data.completed_stages["stage_city_01"].stars = 3

\* ========================================================================
\* src/systems/stage_script.py, src/systems/spawner.py
\* ------------------------------------------------------------------------
MaxTimeline == 3     \* entries of a stage file's timeline
MaxTime == 2         \* the largest event time and the largest dt drawn
MaxUpdates == 3      \* update() calls explored since construction or reset()

\* the entries of a timeline: dicts with "time", "action" and maybe "params"
Entries ==
    {[time |-> t, action |-> a] : t \in 0..MaxTime, a \in {"spawn", "taunt"}}
        \cup {[time |-> t, action |-> "spawn", params |-> [type |-> "grunt"]] : t \in 0..MaxTime}
Timelines == UNION {[1..n -> Entries] : n \in 0..MaxTimeline}

\* the stage files: with or without "timeline" and "duration"
StageFiles ==
    {[id |-> "stage_test", timeline |-> tl] : tl \in Timelines}
        \cup {[id |-> "stage_test", timeline |-> tl, duration |-> 4] : tl \in Timelines}
        \cup {[id |-> "stage_test"]}

\* TimelineEvent(time=entry["time"], action=entry["action"], params=entry.get("params", {}))
TimelineEvent(entry) ==
    [time |-> entry.time, action |-> entry.action,
     params |-> Get(entry, "params", EmptyDict)]

\* max((event.time for event in timeline), default=0)
RECURSIVE MaxEventTime(_, _)
MaxEventTime(timeline, n) ==
    IF n = 0 THEN 0
    ELSE IF n = 1 THEN timeline[1].time
    ELSE Max(MaxEventTime(timeline, n - 1), timeline[n].time)

\* Mutant of InsertByTime: an event goes before the events of its own time.
InsertByTimeBeforeEqual(sorted, event) ==
    SelectSeq(sorted, LAMBDA e : e.time < event.time)
        \o <<event>> \o SelectSeq(sorted, LAMBDA e : e.time >= event.time)
\* sorted(timeline, key=lambda e: e.time): a stable sort; each event goes after
\* the events already placed whose time is not larger
InsertByTime(sorted, event) ==
    SelectSeq(sorted, LAMBDA e : e.time <= event.time)
        \o <<event>> \o SelectSeq(sorted, LAMBDA e : e.time > event.time)
RECURSIVE SortedByTime(_, _)
SortedByTime(timeline, n) ==
    IF n = 0 THEN <<>> ELSE InsertByTime(SortedByTime(timeline, n - 1), timeline[n])

\* the list comprehension over data.get("timeline", [])
EventsOf(data) ==
    [k \in 1..Len(Get(data, "timeline", <<>>)) |-> TimelineEvent(data.timeline[k])]

\* StageScript.from_json (duration in the same unit as the times; + 5.0)
from_json(data) ==
    [loaded |-> TRUE,
     timeline |-> SortedByTime(EventsOf(data), Len(EventsOf(data))),
     duration |-> Get(data, "duration",
                      MaxEventTime(EventsOf(data), Len(EventsOf(data))) + 5)]

\* the actions StageState registers a handler for; "taunt" has none
Handlers == {"spawn", "powerup", "hostage", "barrel", "crate", "boss", "camera_pan"}

InitStage ==
    /\ stage_json \in StageFiles
    /\ script = [loaded |-> FALSE, timeline |-> <<>>, duration |-> 0]
    /\ spawner = [built |-> FALSE, events |-> <<>>, elapsed |-> 0, updates |-> 0]
    /\ dispatched = <<>>
    /\ GameIdle
    /\ SaveIdle /\ ExtraIdle

\* self.script = StageScript.from_json(stage_path)
LoadScript ==
    /\ ~script.loaded
    /\ script' = from_json(stage_json)
    /\ UNCHANGED <<stage_json, spawner, dispatched>>
    /\ GameFrozen /\ SaveFrozen /\ ExtraFrozen

\* Spawner(script, handlers)
NewSpawner ==
    /\ script.loaded
    /\ ~spawner.built
    /\ spawner' = [built |-> TRUE,
                   events |-> [k \in 1..Len(script.timeline) |->
                                  [event |-> script.timeline[k], executed |-> FALSE]],
                   elapsed |-> 0, updates |-> 0]
    /\ UNCHANGED <<stage_json, script, dispatched>>
    /\ GameFrozen /\ SaveFrozen /\ ExtraFrozen

\* Mutant of Due: the comparison is strict.
DueStrictly(elapsed, instruction) ==
    ~instruction.executed /\ elapsed > instruction.event.time
\* if not instruction.executed and self.elapsed >= instruction.event.time
Due(elapsed, instruction) ==
    ~instruction.executed /\ elapsed >= instruction.event.time

\* the for loop of update from instruction k on: the events and the dispatches.
\* A dispatch records the instruction, the update() call (counted since
\* construction or reset), self.elapsed before and after that call's
\* "self.elapsed += dt", and whether a handler was called.
RECURSIVE UpdateLoop(_, _, _, _, _, _)
UpdateLoop(events, log, before, elapsed, update, k) ==
    IF k > Len(events) THEN [events |-> events, log |-> log]
    ELSE IF Due(elapsed, events[k])
         THEN UpdateLoop([events EXCEPT ![k].executed = TRUE],
                         Append(log, [index |-> k, update |-> update,
                                      before |-> before, elapsed |-> elapsed,
                                      handled |-> events[k].event.action \in Handlers]),
                         before, elapsed, update, k + 1)
         ELSE UpdateLoop(events, log, before, elapsed, update, k + 1)

\* Spawner.update(dt)
SpawnerUpdate(dt) ==
    /\ spawner.built
    /\ spawner.updates < MaxUpdates
    /\ spawner' = [spawner EXCEPT
                      !.elapsed = @ + dt,
                      !.updates = @ + 1,
                      !.events = UpdateLoop(spawner.events, dispatched, spawner.elapsed,
                                            spawner.elapsed + dt,
                                            spawner.updates + 1, 1).events]
    /\ dispatched' = UpdateLoop(spawner.events, dispatched, spawner.elapsed,
                                spawner.elapsed + dt, spawner.updates + 1, 1).log
    /\ UNCHANGED <<stage_json, script>>
    /\ GameFrozen /\ SaveFrozen /\ ExtraFrozen

\* Spawner.reset()
SpawnerReset ==
    /\ spawner.built
    /\ spawner.updates > 0
    /\ spawner' = [spawner EXCEPT
                      !.elapsed = 0,
                      !.updates = 0,
                      !.events = [k \in 1..Len(spawner.events) |->
                                     [event |-> spawner.events[k].event, executed |-> FALSE]]]
    /\ dispatched' = <<>>
    /\ UNCHANGED <<stage_json, script>>
    /\ GameFrozen /\ SaveFrozen /\ ExtraFrozen

NextStage ==
    \/ LoadScript
    \/ NewSpawner
    \/ \E dt \in 0..MaxTime : SpawnerUpdate(dt)
    \/ SpawnerReset

SpecStage == InitStage /\ [][NextStage]_stage_vars

\* the events of time t in a sequence of events, in their order
AtTime(events, t) == SelectSeq(events, LAMBDA e : e.time = t)
\* the events the entries of the file's timeline stand for, in file order
InputEvents ==
    [k \in 1..Len(Get(stage_json, "timeline", <<>>)) |->
        [time |-> stage_json.timeline[k].time,
         action |-> stage_json.timeline[k].action,
         params |-> IF "params" \in DOMAIN stage_json.timeline[k]
                    THEN stage_json.timeline[k].params ELSE <<>>]]

\* C19: from_json keeps every timeline entry exactly once: the script has as
\* many events as the file has entries, in nondecreasing time order, the events
\* of each time being the file's entries of that time in the file's order; when
\* the file gives no duration, the duration is the largest event time plus 5
\* (5 for an empty timeline).
C19_FromJsonKeepsTimeline ==
    script.loaded =>
        /\ Len(script.timeline) = Len(InputEvents)
        /\ \A k \in 1..(Len(script.timeline) - 1) :
              script.timeline[k].time <= script.timeline[k + 1].time
        /\ \A t \in 0..MaxTime : AtTime(script.timeline, t) = AtTime(InputEvents, t)
        /\ "duration" \notin DOMAIN stage_json =>
              IF Len(InputEvents) = 0
              THEN script.duration = 5
              ELSE \E k \in 1..Len(InputEvents) :
                      /\ script.duration = InputEvents[k].time + 5
                      /\ \A i \in 1..Len(InputEvents) :
                            InputEvents[i].time <= InputEvents[k].time

\* C19 witness: a file without duration has been loaded whose three entries are
\* out of order, two of them of the same time with different actions.
C19_Witness ==
    /\ script.loaded
    /\ "duration" \notin DOMAIN stage_json
    /\ "timeline" \in DOMAIN stage_json
    /\ Len(stage_json.timeline) = 3
    /\ stage_json.timeline[1].time > stage_json.timeline[2].time
    /\ stage_json.timeline[1].time = stage_json.timeline[3].time
    /\ stage_json.timeline[1].action # stage_json.timeline[3].action

\* C20: since construction or the last reset(), every event has been dispatched
\* at most once, and exactly once when an update() has found elapsed >= its
\* time: in the first such update (before it, elapsed was below the time, or it
\* was the first update), never earlier; the dispatches of one update are in
\* nondecreasing time order; an event without a registered handler is marked
\* executed with no handler call.
C20_DispatchedExactlyOnce ==
    spawner.built =>
        /\ \A i \in 1..Len(spawner.events) :
              /\ Cardinality({n \in 1..Len(dispatched) : dispatched[n].index = i})
                    = (IF spawner.events[i].executed THEN 1 ELSE 0)
              /\ spawner.events[i].executed
                    <=> (spawner.updates > 0 /\ spawner.elapsed >= spawner.events[i].event.time)
        /\ \A n \in 1..Len(dispatched) :
              /\ dispatched[n].elapsed >= spawner.events[dispatched[n].index].event.time
              /\ \/ dispatched[n].update = 1
                 \/ dispatched[n].before < spawner.events[dispatched[n].index].event.time
              /\ dispatched[n].handled
                    <=> spawner.events[dispatched[n].index].event.action
                        \in {"spawn", "powerup", "hostage", "barrel", "crate", "boss", "camera_pan"}
        /\ \A n, o \in 1..Len(dispatched) :
              (n < o /\ dispatched[n].update = dispatched[o].update) =>
                  spawner.events[dispatched[n].index].event.time
                      <= spawner.events[dispatched[o].index].event.time

\* C20 witness: three updates have dispatched three events, two of them in one
\* update, one of them without a handler, and the file had them out of order.
C20_Witness ==
    /\ spawner.built
    /\ Len(dispatched) = 3
    /\ dispatched[1].update < dispatched[2].update
    /\ dispatched[2].update = dispatched[3].update
    /\ ~dispatched[3].handled
    /\ stage_json.timeline[1].time > stage_json.timeline[2].time

\* ========================================================================
\* C22: at most one chain of perform_animation_step callbacks is pending, and
\* compute_move (a direction key that on_key does not ignore) never runs while
\* a callback is pending.
C22_OneChainPending ==
    /\ timers <= 1
    /\ [][/\ timers' <= 1
          /\ (\E direction \in Directions : OnKey(direction)) => timers = 0]_vars

\* C29: while the animation of an accepted move runs a cell of the board is
\* empty, and the step that ends it finds an empty cell and leaves as many
\* tiles as there were before the move, minus one per merge, plus one.
C29_EmptyCellAfterAcceptedMove ==
    /\ animating => \E cell \in Cells : board[cell] = None
    /\ [][/\ animating' => \E cell \in Cells : board'[cell] = None
          /\ (animating /\ ~animating') =>
                \/ ResetGame
                \/ /\ \E cell \in Cells : board[cell] = None
                   /\ Cardinality(DOMAIN tiles) = Cardinality(DOMAIN start_positions)
                   /\ Cardinality(DOMAIN tiles') =
                         Cardinality(DOMAIN start_positions)
                             - Len(animation_state.merges) + 1]_vars

\* C29 witness: the animation of a move with a merge has ended: its new tile is
\* on the board and the tiles are no more than before the move.
C29_Witness ==
    /\ ~animating
    /\ start_positions # EmptyDict
    /\ tile_id_counter \in DOMAIN tiles
    /\ tile_id_counter \notin DOMAIN start_positions
    /\ Cardinality(DOMAIN tiles) <= Cardinality(DOMAIN start_positions)

\* ========================================================================
\* src/core/scene_manager.py
\* ------------------------------------------------------------------------
MaxScenes == 3       \* scene objects handed to the SceneManager
MaxSceneOps == 4     \* push / pop / replace calls explored
MaxNavigation == 6   \* scene changes explored from the main menu

\* scene.enter() / scene.exit(): the call is recorded for that object
SceneCall(calls, scene, call) == Put(calls, scene, Append(Get(calls, scene, <<>>), call))

Top(stack) == stack[Len(stack)]
Front(stack) == SubSeq(stack, 1, Len(stack) - 1)

\* SceneManager.push
Push(stack, calls, scene) ==
    LET exited == IF stack # <<>> THEN SceneCall(calls, Top(stack), "exit") ELSE calls
    IN  [stack |-> Append(stack, scene), calls |-> SceneCall(exited, scene, "enter")]

\* Mutant of EnterUncovered: the scene a pop uncovers is not entered again.
EnterUncoveredForgotten(stack, calls) == calls
\* SceneManager.pop, its second "if self.stack"
EnterUncovered(stack, calls) ==
    IF stack # <<>> THEN SceneCall(calls, Top(stack), "enter") ELSE calls

\* SceneManager.pop
Pop(stack, calls) ==
    LET popped == IF stack # <<>> THEN Front(stack) ELSE stack
        exited == IF stack # <<>> THEN SceneCall(calls, Top(stack), "exit") ELSE calls
    IN  [stack |-> popped, calls |-> EnterUncovered(popped, exited)]

\* SceneManager.replace
Replace(stack, calls, scene) ==
    LET popped == IF stack # <<>> THEN Front(stack) ELSE stack
        exited == IF stack # <<>> THEN SceneCall(calls, Top(stack), "exit") ELSE calls
    IN  [stack |-> Append(popped, scene), calls |-> SceneCall(exited, scene, "enter")]

\* SceneManager.current: None for an empty stack
Current(stack) == IF stack # <<>> THEN Top(stack) ELSE None

\* the scene objects of a caller: instances of Scene or of a subclass
SceneObjects == {[kind |-> "Scene", id |-> n, success |-> FALSE] : n \in 1..MaxScenes}

InitSceneManager ==
    /\ SceneIdle
    /\ GameIdle /\ SaveIdle /\ StageIdle /\ PlayIdle /\ FrameIdle

\* the manager is left in the state r, one more call made
SceneManagerCalled(r) ==
    /\ scene_ops < MaxSceneOps
    /\ scene_stack' = r.stack
    /\ scene_calls' = r.calls
    /\ scene_ops' = scene_ops + 1
    /\ UNCHANGED scenes_made
    /\ GameFrozen /\ SaveFrozen /\ StageFrozen /\ PlayFrozen /\ FrameFrozen

PushScene(scene) == SceneManagerCalled(Push(scene_stack, scene_calls, scene))
PopScene == SceneManagerCalled(Pop(scene_stack, scene_calls))
ReplaceScene(scene) == SceneManagerCalled(Replace(scene_stack, scene_calls, scene))

NextSceneManager ==
    \/ \E scene \in SceneObjects : PushScene(scene)
    \/ PopScene
    \/ \E scene \in SceneObjects : ReplaceScene(scene)

SpecSceneManager == InitSceneManager /\ [][NextSceneManager]_scene_vars

\* the calls alternate and start with enter()
Alternate(calls) ==
    \A k \in 1..Len(calls) : calls[k] = (IF k % 2 = 1 THEN "enter" ELSE "exit")

\* C21: the calls every scene object has received alternate, starting with
\* enter(); the last call of the scene on top of the stack is enter(), the last
\* call of every other scene is exit(); current() is the top of the stack, None
\* when the stack is empty.
C21_TopSceneIsActive ==
    /\ \A scene \in DOMAIN scene_calls :
          /\ scene_calls[scene] # <<>>
          /\ Alternate(scene_calls[scene])
          /\ (scene_calls[scene][Len(scene_calls[scene])] = "enter")
                <=> (scene_stack # <<>> /\ scene = scene_stack[Len(scene_stack)])
    /\ \A k \in 1..Len(scene_stack) : scene_stack[k] \in DOMAIN scene_calls
    /\ Current(scene_stack) =
          (IF Len(scene_stack) = 0 THEN None ELSE scene_stack[Len(scene_stack)])

\* C21 witness: a scene that was covered by another and uncovered by pop is on
\* top again, and a scene that was popped has got its exit().
C21_Witness ==
    /\ Len(scene_stack) = 1
    /\ Len(scene_calls[scene_stack[1]]) = 3
    /\ \E scene \in DOMAIN scene_calls :
          scene # scene_stack[1] /\ Len(scene_calls[scene]) = 2

\* ------------------------------------------------------------------------
\* src/core/game.py and src/systems/stage_flow.py, src/systems/shop.py: the
\* scenes the game constructs and the scene changes of their handlers
NewScene(kind, success) == [kind |-> kind, id |-> scenes_made + 1, success |-> success]

\* Game.start: self.scene_manager.push(self.main_menu_cls(self))
InitNavigation ==
    /\ scene_stack = Push(<<>>, EmptyDict, [kind |-> "MainMenuState", id |-> 1, success |-> FALSE]).stack
    /\ scene_calls = Push(<<>>, EmptyDict, [kind |-> "MainMenuState", id |-> 1, success |-> FALSE]).calls
    /\ scenes_made = 1
    /\ scene_ops = 0
    /\ GameIdle /\ SaveIdle /\ StageIdle /\ PlayIdle /\ FrameIdle

\* the current scene is of this kind and its handler may run
CurrentIs(kind) ==
    /\ scene_stack # <<>>
    /\ Current(scene_stack).kind = kind
    /\ scene_ops < MaxNavigation

\* the handler leaves the manager in the state r, having constructed made scenes
Navigated(r, made) ==
    /\ scene_stack' = r.stack
    /\ scene_calls' = r.calls
    /\ scenes_made' = scenes_made + made
    /\ scene_ops' = scene_ops + 1
    /\ GameFrozen /\ SaveFrozen /\ StageFrozen /\ PlayFrozen /\ FrameFrozen

\* Game.open_stage, open_stage_select, open_shop, open_main_menu
open_stage == Navigated(Replace(scene_stack, scene_calls, NewScene("StageState", FALSE)), 1)
open_stage_select == Navigated(Replace(scene_stack, scene_calls, NewScene("StageSelectState", FALSE)), 1)
open_shop == Navigated(Push(scene_stack, scene_calls, NewScene("ShopState", FALSE)), 1)
open_main_menu == Navigated(Replace(scene_stack, scene_calls, NewScene("MainMenuState", FALSE)), 1)
PushNew(kind) == Navigated(Push(scene_stack, scene_calls, NewScene(kind, FALSE)), 1)
PopCurrent == Navigated(Pop(scene_stack, scene_calls), 0)

\* MainMenuState._activate_option (Quit ends the main loop and is left out)
MainMenuActivate(option) ==
    /\ CurrentIs("MainMenuState")
    /\ CASE option = "Play" -> open_stage_select
         [] option = "Shop" -> open_shop
         [] option = "Achievements" -> PushNew("AchievementState")
         [] option = "Settings" -> PushNew("SettingsState")

\* Escape or Backspace in SettingsState, AchievementState, ShopState, PauseState
BackPops ==
    /\ \E kind \in {"SettingsState", "AchievementState", "ShopState", "PauseState"} :
          CurrentIs(kind)
    /\ PopCurrent

\* StageSelectState.handle_event: Escape or Backspace; Return or Space on a stage
StageSelectBack == CurrentIs("StageSelectState") /\ open_main_menu
StageSelectStart == CurrentIs("StageSelectState") /\ open_stage

\* StageState.handle_event: Escape
StagePause == CurrentIs("StageState") /\ PushNew("PauseState")

\* StageState.fail_stage / complete_stage called in the current stage's update
StageEnds(success) ==
    /\ CurrentIs("StageState")
    /\ Navigated(Replace(scene_stack, scene_calls, NewScene("StageClearState", success)), 1)

\* PauseState._activate
PauseActivate(option) ==
    /\ CurrentIs("PauseState")
    /\ CASE option = "Resume" -> PopCurrent
         [] option = "Restart" -> open_stage
         [] option = "Stage Select" -> open_stage_select
         [] option = "Settings" -> PushNew("SettingsState")

\* StageClearState.handle_event: Return or Space; R after a success; Escape or Backspace
StageClearContinue == CurrentIs("StageClearState") /\ open_stage_select
StageClearRetry ==
    /\ CurrentIs("StageClearState")
    /\ Current(scene_stack).success
    /\ open_stage
StageClearBack == CurrentIs("StageClearState") /\ open_main_menu

NextNavigation ==
    \/ \E option \in {"Play", "Shop", "Achievements", "Settings"} : MainMenuActivate(option)
    \/ BackPops
    \/ StageSelectBack
    \/ StageSelectStart
    \/ StagePause
    \/ \E success \in BOOLEAN : StageEnds(success)
    \/ \E option \in {"Resume", "Restart", "Stage Select", "Settings"} : PauseActivate(option)
    \/ StageClearContinue
    \/ StageClearRetry
    \/ StageClearBack

SpecNavigation == InitNavigation /\ [][NextNavigation]_scene_vars

\* the StageState objects on the stack
StageStates == {k \in 1..Len(scene_stack) : scene_stack[k].kind = "StageState"}

\* C27: the scene stack holds at most one StageState, and it is never deeper
\* than a stage with its pause menu and the settings opened from there.
C27_OneStageBoundedDepth ==
    /\ Cardinality(StageStates) <= 1
    /\ Len(scene_stack) <= 3

\* ========================================================================
\* src/actors/player.py, src/systems/stage_flow.py (StageState), and the
\* take_damage methods of the actors a shot can hit
\* ------------------------------------------------------------------------
\* Times are counted in tenths of a fixed step, health in half points.
FIXED_DT == 10        \* one fixed step
DuckDuration == 20    \* self.duck_duration, two steps
ComboDecay == 30      \* the combo_decay register_hit sets
PowerupDuration == 20 \* the duration of a collected powerup
StageDuration == 20   \* self.script.duration
MaxTicks == 2         \* StageState.update calls explored

\* WEAPON_DATA, two of its weapons, scaled down
WEAPON_DATA ==
    [pistol |-> [mag_size |-> 2, reload_time |-> 30, rof |-> 10, damage |-> 25],
     smg |-> [mag_size |-> 3, reload_time |-> 30, rof |-> 10, damage |-> 18]]

MaxHealth == 5
Halves(amount) == 2 * amount

\* Player.__init__
PlayerNew ==
    [health |-> Halves(MaxHealth), ammo |-> WEAPON_DATA["pistol"].mag_size,
     weapon_id |-> "pistol", reload_timer |-> 0, shoot_timer |-> 0, duck_timer |-> 0,
     invulnerable |-> FALSE, powerups |-> EmptyDict, combo_hits |-> 0, combo_decay |-> 0]

\* StageState.__init__; results, coins_added, evaluated count the calls of
\* set_stage_result, add_coins and evaluate_achievements, screens lists the
\* success flags of the StageClearState scenes handed to scene_manager.replace
StageNew ==
    [failed |-> FALSE, completed |-> FALSE, stage_time |-> 0,
     shots_fired |-> 0, hits |-> 0, hostages_saved |-> 0, hostages_lost |-> 0,
     results |-> 0, coins_added |-> 0, evaluated |-> 0, screens |-> <<>>]

\* Below, w is [player, stage]: a Player and the StageState it calls back.

\* StageState.register_hit
register_hit(w) ==
    [w EXCEPT !.stage.shots_fired = @ + 1, !.stage.hits = @ + 1,
              !.player.combo_hits = @ + 1, !.player.combo_decay = ComboDecay]

\* StageState.register_miss
register_miss(w) ==
    [w EXCEPT !.stage.shots_fired = @ + 1,
              !.player.combo_hits = 0, !.player.combo_decay = 0]

\* StageState.register_duck, and on_player_hit, which calls it
register_duck(w) == [w EXCEPT !.player.combo_hits = 0, !.player.combo_decay = 0]
on_player_hit(w) == register_duck(w)

\* StageState.fail_stage
fail_stage(w) ==
    IF ~w.stage.failed
    THEN [w EXCEPT !.stage.failed = TRUE, !.stage.screens = Append(@, FALSE)]
    ELSE w

\* StageState.complete_stage
complete_stage(w) ==
    IF ~w.stage.completed
    THEN [w EXCEPT !.stage.completed = TRUE, !.stage.evaluated = @ + 1,
                   !.stage.results = @ + 1, !.stage.coins_added = @ + 1,
                   !.stage.screens = Append(@, TRUE)]
    ELSE w

\* StageState.on_boss_defeated
on_boss_defeated(w) == complete_stage(w)

\* Player.heal
heal(w, amount) ==
    [w EXCEPT !.player.health =
        IF @ + Halves(amount) > Halves(MaxHealth) THEN Halves(MaxHealth) ELSE @ + Halves(amount)]

\* StageState.on_hostage_hit, on_hostage_rescued
on_hostage_hit(w) == register_miss([w EXCEPT !.stage.hostages_lost = @ + 1])
on_hostage_rescued(w) == heal([w EXCEPT !.stage.hostages_saved = @ + 1], 1)

\* the powerups after the loop of Player.update: each timer lowered, the expired popped
PowerupsAfter(powerups, dt) ==
    [name \in {n \in DOMAIN powerups : powerups[n] - dt > 0} |-> powerups[name] - dt]

\* Player.update(dt, stage_state)
PlayerUpdate(w, dt) ==
    LET p == w.player
        decay == Max(0, p.combo_decay - dt)
        ducked == IF p.duck_timer > 0 THEN p.duck_timer - dt ELSE p.duck_timer
        after == PowerupsAfter(p.powerups, dt)
    IN  [w EXCEPT !.player =
            [p EXCEPT !.combo_decay = decay,
                      !.combo_hits = IF decay = 0 THEN 0 ELSE @,
                      !.reload_timer = Max(0, @ - dt),
                      !.shoot_timer = Max(0, @ - dt),
                      !.duck_timer = ducked,
                      !.invulnerable =
                          IF \/ (p.duck_timer > 0 /\ ducked <= 0)
                             \/ ("armor" \in DOMAIN p.powerups /\ "armor" \notin DOMAIN after)
                          THEN FALSE ELSE @,
                      !.powerups = after]]

\* Player.begin_duck, is_ducking, can_shoot
begin_duck(w) == [w EXCEPT !.player.duck_timer = DuckDuration, !.player.invulnerable = TRUE]
is_ducking(p) == p.duck_timer > 0
can_shoot(p) == ~is_ducking(p) /\ p.reload_timer = 0 /\ p.shoot_timer = 0 /\ p.ammo > 0

\* Player.reload; reload_time *= 0.7 under the "reload" powerup
reload(w) ==
    LET p == w.player
        weapon == WEAPON_DATA[p.weapon_id]
    IN  IF p.reload_timer = 0 /\ p.ammo < weapon.mag_size
        THEN [w EXCEPT !.player.reload_timer =
                 IF "reload" \in DOMAIN p.powerups
                 THEN (weapon.reload_time * 7) \div 10 ELSE weapon.reload_time]
        ELSE w

\* Player.take_damage(amount, stage_state)
take_damage(w, amount) ==
    LET p == w.player
        armor == Get(p.powerups, "armor", 0)
        halved == IF p.invulnerable \/ armor > 0 THEN amount ELSE Halves(amount)
        hit == on_player_hit([w EXCEPT !.player.health = @ - halved])
    IN  IF p.invulnerable /\ armor <= 0 THEN w
        ELSE IF hit.player.health <= 0 THEN fail_stage(hit) ELSE hit

\* Player.apply_powerup, switch_weapon
apply_powerup(w, name, duration) == [w EXCEPT !.player.powerups = Put(@, name, duration)]
switch_weapon(w, weapon_id) ==
    IF weapon_id \in DOMAIN WEAPON_DATA
    THEN [w EXCEPT !.player.weapon_id = weapon_id,
                   !.player.ammo = WEAPON_DATA[weapon_id].mag_size,
                   !.player.reload_timer = 0]
    ELSE w

\* what hitscan finds under the cursor, and where on it the cursor is
Targets == {"nothing", "enemy", "hostage_rope", "hostage_body", "barrel", "crate",
            "boss_weak_spot", "boss_elsewhere"}

\* target.take_damage(...) of Player.shoot: Enemy, ExplosiveBarrel and CoinCrate
\* call back nothing that counts a shot; Hostage calls on_hostage_hit; Boss
\* calls register_miss outside the weak spot and on_boss_defeated when its
\* health is used up
TargetTakesDamage(w, target, defeated) ==
    CASE target = "hostage_body" -> on_hostage_hit(w)
      [] target = "boss_elsewhere" -> register_miss(w)
      [] target = "boss_weak_spot" -> IF defeated THEN on_boss_defeated(w) ELSE w
      [] OTHER -> w

\* Player.shoot, lines 101-118: the shot that was fired is counted
ShotCounted(w, target, defeated) ==
    IF target = "nothing" THEN register_miss(w)
    ELSE IF target = "hostage_rope" THEN register_hit(on_hostage_rescued(w))
    ELSE register_hit(TargetTakesDamage(w, target, defeated))

\* Player.shoot(stage_state); rof *= 0.5 under the "rapid" powerup; a shot at a
\* hostage's rope returns before the "if self.ammo <= 0" at the end
shoot(w, target, defeated) ==
    LET p == w.player
        rof == WEAPON_DATA[p.weapon_id].rof
        fired == [w EXCEPT !.player.ammo = @ - 1,
                           !.player.shoot_timer =
                               IF "rapid" \in DOMAIN p.powerups THEN rof \div 2 ELSE rof]
        counted == ShotCounted(fired, target, defeated)
    IN  IF ~can_shoot(p) THEN w
        ELSE IF target = "hostage_rope" THEN counted
        ELSE IF counted.player.ammo <= 0 THEN reload(counted) ELSE counted

World == [player |-> player, stage |-> stage_state]

InitPlay ==
    /\ player = PlayerNew
    /\ stage_state = StageNew
    /\ GameIdle /\ SaveIdle /\ StageIdle /\ SceneIdle /\ FrameIdle

\* the call leaves the player and the stage as in w
Becomes(w) ==
    /\ player' = w.player
    /\ stage_state' = w.stage
    /\ GameFrozen /\ SaveFrozen /\ StageFrozen /\ SceneFrozen /\ FrameFrozen

\* ------------------------------------------------------------------------
\* The Player driven method by method
CallUpdate == Becomes(PlayerUpdate(World, FIXED_DT))
CallShoot(target, defeated) == Becomes(shoot(World, target, defeated))
CallReload == Becomes(reload(World))
\* begin_duck: both callers ask is_ducking() first and call register_duck after
CallBeginDuck == ~is_ducking(player) /\ Becomes(register_duck(begin_duck(World)))
\* take_damage, as long as the stage has not failed
CallTakeDamage(amount) == ~stage_state.failed /\ Becomes(take_damage(World, amount))
CallApplyPowerup(name) == Becomes(apply_powerup(World, name, PowerupDuration))

NextPlayer ==
    \/ CallUpdate
    \/ \E target \in {"nothing", "enemy"} : CallShoot(target, FALSE)
    \/ CallReload
    \/ CallBeginDuck
    \/ \E amount \in {1, 2} : CallTakeDamage(amount)
    \/ \E name \in {"armor", "reload"} : CallApplyPowerup(name)

\* the stage goes on calling Player.update
SpecPlayer == InitPlay /\ [][NextPlayer]_play_vars /\ WF_play_vars(CallUpdate)

\* ------------------------------------------------------------------------
\* StageState.update and handle_event
\* the attacks of the enemies updated in one tick, as take_damage amounts
Attacks == {<<>>, <<1>>, <<2, 2>>}

RECURSIVE Attacked(_, _, _)
Attacked(w, attacks, i) ==
    IF i > Len(attacks) THEN w ELSE Attacked(take_damage(w, attacks[i]), attacks, i + 1)

\* StageState._collect_powerup
collect_powerup(w, kind) ==
    CASE kind = "health" -> heal(w, 2)
      [] kind = "none" -> w
      [] OTHER -> apply_powerup(w, kind, PowerupDuration)

\* what one tick brings: the attacks of the enemies, the powerup the player
\* touches, an attack of the boss, a bomb going off, the left button and what is
\* under the cursor, the space key, and whether no enemy and no boss is left
TickInputs ==
    {i \in [attacks : Attacks, pickup : {"none", "armor", "health"}, boss_attack : BOOLEAN,
            bomb : BOOLEAN, left : BOOLEAN, target : Targets, defeated : BOOLEAN,
            space : BOOLEAN, clear : BOOLEAN] :
        /\ i.defeated => (i.left /\ i.target = "boss_weak_spot")
        /\ ~i.left => i.target = "nothing"
        /\ i.clear => /\ i.attacks = <<>>
                      /\ ~i.boss_attack
                      /\ i.target \notin {"enemy", "boss_weak_spot", "boss_elsewhere"}}

\* StageState.update(dt) of a stage that has neither failed nor completed
Updated(w, i, dt) ==
    LET timed == [w EXCEPT !.stage.stage_time = @ + dt]
        moved == PlayerUpdate(timed, dt)
        attacked == Attacked(moved, i.attacks, 1)
        collected == collect_powerup(attacked, i.pickup)
        boss == IF i.boss_attack THEN take_damage(collected, 2) ELSE collected
        bombed == IF i.bomb /\ ~is_ducking(boss.player) THEN take_damage(boss, 1) ELSE boss
        shot == IF i.left THEN shoot(bombed, i.target, i.defeated) ELSE bombed
        ducked == IF i.space /\ ~is_ducking(shot.player)
                  THEN register_duck(begin_duck(shot)) ELSE shot
    IN  IF ducked.stage.stage_time >= StageDuration /\ i.clear
        THEN complete_stage(ducked) ELSE ducked

StageUpdate(i) ==
    /\ stage_state.stage_time < MaxTicks * FIXED_DT
    /\ Becomes(IF stage_state.failed \/ stage_state.completed
               THEN World ELSE Updated(World, i, FIXED_DT))

\* the stage is the current scene: it has not been replaced by a StageClearState
StageIsCurrent == ~stage_state.failed /\ ~stage_state.completed

\* StageState.handle_event: R, a number key of an unlocked weapon, the right button
KeyReload == StageIsCurrent /\ Becomes(reload(World))
KeyWeapon(weapon_id) == StageIsCurrent /\ Becomes(switch_weapon(World, weapon_id))
RightButton ==
    /\ StageIsCurrent
    /\ Becomes(IF ~is_ducking(player) THEN register_duck(begin_duck(World)) ELSE World)

NextPlay ==
    \/ \E i \in TickInputs : StageUpdate(i)
    \/ KeyReload
    \/ \E weapon_id \in DOMAIN WEAPON_DATA : KeyWeapon(weapon_id)
    \/ RightButton

SpecPlay == InitPlay /\ [][NextPlay]_play_vars

\* ========================================================================
\* C23: a stage that has failed is not completed: no stage result is recorded,
\* no coins are added, no achievements are evaluated, and the failure screen is
\* the only StageClearState handed to the scene manager.
C23_FailedNeverCompleted ==
    stage_state.failed =>
        /\ ~stage_state.completed
        /\ stage_state.results = 0
        /\ stage_state.coins_added = 0
        /\ stage_state.evaluated = 0
        /\ stage_state.screens = <<FALSE>>

\* C24: once the magazine is empty and a reload has started, the ammo is
\* eventually back at the weapon's mag_size, the stage calling Player.update
\* again and again, unless the stage ends first.
C24_ReloadRestoresAmmo ==
    (player.ammo = 0 /\ player.reload_timer > 0)
        ~> \/ player.ammo = WEAPON_DATA[player.weapon_id].mag_size
           \/ stage_state.failed
           \/ stage_state.completed

\* C26: no call on a player whose invulnerable flag is set lowers the health,
\* and the flag is set whenever is_ducking() is true.
C26_InvulnerableKeepsHealth ==
    /\ is_ducking(player) => player.invulnerable
    /\ [][/\ player.invulnerable => player'.health >= player.health
          /\ is_ducking(player') => player'.invulnerable]_play_vars

\* C28: an update in which a shot is fired (the ammo of the weapon in hand goes
\* down by one) raises shots_fired by exactly one and hits by at most one, and
\* leaves the combo at 0 when the shot has cost a hostage; hits never exceeds
\* shots_fired.
C28_ShotCountedOnce ==
    /\ stage_state.hits <= stage_state.shots_fired
    /\ [][/\ stage_state'.hits <= stage_state'.shots_fired
          /\ (player'.weapon_id = player.weapon_id /\ player'.ammo = player.ammo - 1) =>
                /\ stage_state'.shots_fired = stage_state.shots_fired + 1
                /\ stage_state'.hits \in {stage_state.hits, stage_state.hits + 1}
                /\ stage_state'.hostages_lost > stage_state.hostages_lost =>
                      player'.combo_hits = 0]_play_vars

\* ========================================================================
\* src/core/game.py: Game.start, and src/core/input.py
\* ------------------------------------------------------------------------
MaxFrames == 3      \* iterations of the main loop explored

\* what clock.tick(TARGET_FPS) / 1000.0 adds to the accumulator, in tenths of a
\* fixed step: tick returns whole milliseconds, 16 or 17 at full speed (just
\* under and just over FIXED_DT), more when a frame was slow
FrameTimes == {9, 11, 20}

\* BUTTON_LEFT and pygame.K_SPACE, the keys StageState.update asks for
InputKeys == {"BUTTON_LEFT", "K_SPACE"}

\* InputManager.begin_frame
begin_frame(state) == [state EXCEPT !.pressed = {}]

\* InputManager.handle_event for the KEYDOWN / MOUSEBUTTONDOWN events of a
\* frame, and for the KEYUP / MOUSEBUTTONUP events of the keys that were down
handle_events(state, downs, ups) ==
    [pressed |-> state.pressed \cup downs, down |-> (state.down \cup downs) \ ups]

\* InputManager.was_pressed
was_pressed(state, key) == key \in state.pressed

\* the updates the "while self.accumulator >= FIXED_DT" loop runs
FixedSteps(acc) == acc \div FIXED_DT

\* Game.__init__
InitFrames ==
    /\ input_state = [pressed |-> {}, down |-> {}]
    /\ accumulator = 0
    /\ presses = [key \in InputKeys |-> 0]
    /\ acted = [key \in InputKeys |-> 0]
    /\ frames = 0
    /\ GameIdle /\ SaveIdle /\ StageIdle /\ SceneIdle /\ PlayIdle

\* one iteration of the main loop with a StageState as the current scene: the
\* clock, begin_frame, the events, and the fixed steps, each of which calls
\* update, which acts on every key was_pressed reports
Frame(dt, downs, ups) ==
    /\ frames < MaxFrames
    /\ downs \cap input_state.down = {}
    /\ ups \subseteq input_state.down
    /\ frames' = frames + 1
    /\ input_state' = handle_events(begin_frame(input_state), downs, ups)
    /\ presses' = [key \in InputKeys |-> presses[key] + (IF key \in downs THEN 1 ELSE 0)]
    /\ acted' = [key \in InputKeys |->
                    acted[key] + (IF was_pressed(input_state', key)
                                  THEN FixedSteps(accumulator + dt) ELSE 0)]
    /\ accumulator' = (accumulator + dt) - FixedSteps(accumulator + dt) * FIXED_DT
    /\ GameFrozen /\ SaveFrozen /\ StageFrozen /\ SceneFrozen /\ PlayFrozen

NextFrames ==
    \E dt \in FrameTimes, downs \in SUBSET InputKeys, ups \in SUBSET InputKeys : Frame(dt, downs, ups)

SpecFrames == InitFrames /\ [][NextFrames]_frame_vars

\* C25: every press has been acted on by exactly one update: after each frame
\* the updates that saw a key pressed are as many as its presses.
C25_PressActedOnOnce == \A key \in InputKeys : acted[key] = presses[key]

====
